---- MODULE Spec2Model ----
(***************************************************************************)
(* Data Sweeper Pro (src/app.py): a Streamlit script that is re-executed   *)
(* from top to bottom on every user interaction.  Each execution re-reads  *)
(* every uploaded file, applies the cleaning operation whose button was    *)
(* pressed for this execution, draws a chart, converts the table and       *)
(* collects the outputs in a zip archive.                                  *)
(*                                                                         *)
(* Two specifications:                                                     *)
(*   SpecClean  the three cleaning operations as functions on tables       *)
(*   Spec       the script: uploads, widget interactions, one full         *)
(*              execution of the script per interaction                    *)
(*                                                                         *)
(* Numbers are exact rationals n/d in lowest terms; pandas computes in     *)
(* float64, whose rounding is monotone, so order, equality with the        *)
(* minimum/maximum and 0 and 1 are those of the exact values.              *)
(***************************************************************************)
EXTENDS Integers, Sequences, FiniteSets, TLC

VARIABLES
    \* ---- SpecClean ----
    df_in,            \* the table before the last cleaning operation
    df,               \* the table after it
    last_op,          \* the last cleaning operation applied, or "none"
    prev_op,          \* the cleaning operation applied before it, or "none"
    \* ---- Spec ----
    uploaded_files,   \* st.file_uploader's value: the uploaded files, in order
    session_state,    \* keyed widgets' values chosen by the user
    clicked,          \* the button that is True in the current execution
    page,             \* per file reached by the current execution: what was rendered
    processed_files,  \* the dict output name -> buffer of the current execution
    zip_buffer,       \* the bulk download of the current execution
    exception,        \* the uncaught exception that ended the execution, or "none"
    success,          \* whether the final st.success was reached
    download_id_has_data, \* whether this Streamlit build derives a download
                      \* button's element id from its data too, or from its
                      \* label, file name and mime type alone
    expected,         \* history: per file, the ingested table with every cleaning
                      \* operation triggered so far applied in trigger order
    last_action,      \* history: the interaction that caused the current execution
    interactions      \* number of widget interactions so far

cleanVars == <<df_in, df, last_op, prev_op>>
appVars == <<uploaded_files, session_state, clicked, page, processed_files,
             zip_buffer, exception, success, download_id_has_data, expected,
             last_action, interactions>>
vars == <<df_in, df, last_op, prev_op, uploaded_files, session_state, clicked, page,
          processed_files, zip_buffer, exception, success, download_id_has_data,
          expected, last_action, interactions>>

\* ------------------------------------------------------------------ bounds
MaxRows == 3
MaxVal == 2
MaxFiles == 2
MaxInteractions == 2

\* ------------------------------------------------------------------ cells
\* A cell is a number, a text or missing (pandas NaN).  One record shape for
\* all three so that any two cells can be compared.
Num(n, d) == [k |-> "num", n |-> n, d |-> d, s |-> ""]
Text(s) == [k |-> "txt", n |-> 0, d |-> 1, s |-> s]
NaN == [k |-> "nan", n |-> 0, d |-> 1, s |-> ""]

Abs(x) == IF x < 0 THEN -x ELSE x

RECURSIVE GCD(_, _)
GCD(a, b) == IF b = 0 THEN a ELSE GCD(b, a % b)

\* The rational n/d (d # 0) in lowest terms with a positive denominator.
Rat(n, d) ==
    LET g == GCD(Abs(n), Abs(d))
        sgn == IF d < 0 THEN -1 ELSE 1
    IN Num(sgn * (n \div g), sgn * (d \div g))

Leq(a, b) == a.n * b.d <= b.n * a.d
Sub(a, b) == Rat(a.n * b.d - b.n * a.d, a.d * b.d)
Add(a, b) == Rat(a.n * b.d + b.n * a.d, a.d * b.d)
\* Float division as pandas does it: 0/0 is NaN.  (x/0 with x # 0 would be
\* +-inf; it cannot occur below, where a zero range makes every numerator 0.)
Div(a, b) == IF b.n = 0 THEN NaN ELSE Rat(a.n * b.d, a.d * b.n)

\* ------------------------------------------------------------------ tables
\* A table (DataFrame): the header and the rows, each row one cell per column.
Table(columns, rows) == [columns |-> columns, rows |-> rows]
NCols(T) == Len(T.columns)
NRows(T) == Len(T.rows)
Present(T, c) == {r \in 1..NRows(T) : T.rows[r][c].k # "nan"}

\* select_dtypes(include=['number']): the dtype pandas inferred on reading.
\* A column with a text cell is object; a column of numbers and missing cells
\* (also one whose cells are all missing) is int64/float64; a table without
\* rows has only object columns.
select_dtypes_number(T) ==
    {c \in 1..NCols(T) : NRows(T) > 0 /\ \A r \in 1..NRows(T) : T.rows[r][c].k # "txt"}

\* Series.min() / .max() / .mean() skip missing cells; NaN when none is present.
ColMin(T, c) ==
    IF Present(T, c) = {} THEN NaN
    ELSE LET r == CHOOSE r \in Present(T, c) :
                      \A q \in Present(T, c) : Leq(T.rows[r][c], T.rows[q][c])
         IN T.rows[r][c]
ColMax(T, c) ==
    IF Present(T, c) = {} THEN NaN
    ELSE LET r == CHOOSE r \in Present(T, c) :
                      \A q \in Present(T, c) : Leq(T.rows[q][c], T.rows[r][c])
         IN T.rows[r][c]

RECURSIVE SumRows(_, _, _)
SumRows(T, c, r) ==
    IF r = 0 THEN Num(0, 1)
    ELSE IF T.rows[r][c].k = "nan" THEN SumRows(T, c, r - 1)
    ELSE Add(SumRows(T, c, r - 1), T.rows[r][c])

ColMean(T, c) ==
    IF Present(T, c) = {} THEN NaN
    ELSE Div(SumRows(T, c, NRows(T)), Num(Cardinality(Present(T, c)), 1))

\* ------------------------------------------------------- cleaning operations
\* df.drop_duplicates(inplace=True): keep='first', all columns, NaN equal to NaN.
RECURSIVE KeepFirst(_, _)
KeepFirst(rows, kept) ==
    IF rows = <<>> THEN kept
    ELSE IF \E i \in 1..Len(kept) : kept[i] = Head(rows)
         THEN KeepFirst(Tail(rows), kept)
         ELSE KeepFirst(Tail(rows), Append(kept, Head(rows)))

drop_duplicates(T) == Table(T.columns, KeepFirst(T.rows, <<>>))

\* An elementwise operation of two cells: NaN if either is missing.
CellSub(a, b) == IF a.k = "nan" \/ b.k = "nan" THEN NaN ELSE Sub(a, b)
CellDiv(a, b) == IF a.k = "nan" \/ b.k = "nan" THEN NaN ELSE Div(a, b)

\* A faulty normalize: scales by the range without subtracting the minimum.
normalize_no_shift(T) ==
    LET num == select_dtypes_number(T)
    IN Table(T.columns,
             [r \in 1..NRows(T) |->
                [c \in 1..NCols(T) |->
                   IF c \in num
                   THEN CellDiv(T.rows[r][c], CellSub(ColMax(T, c), ColMin(T, c)))
                   ELSE T.rows[r][c]]])

\* A faulty normalize: divides by the maximum instead of the range.
normalize_by_max(T) ==
    LET num == select_dtypes_number(T)
    IN Table(T.columns,
             [r \in 1..NRows(T) |->
                [c \in 1..NCols(T) |->
                   IF c \in num
                   THEN CellDiv(CellSub(T.rows[r][c], ColMin(T, c)), ColMax(T, c))
                   ELSE T.rows[r][c]]])

\* df[numeric_cols] = (df[numeric_cols] - min) / (max - min)
normalize(T) ==
    LET num == select_dtypes_number(T)
    IN Table(T.columns,
             [r \in 1..NRows(T) |->
                [c \in 1..NCols(T) |->
                   IF c \in num
                   THEN CellDiv(CellSub(T.rows[r][c], ColMin(T, c)),
                                CellSub(ColMax(T, c), ColMin(T, c)))
                   ELSE T.rows[r][c]]])

\* A faulty fill: fills with the column's minimum instead of its mean.
fillna_min(T) ==
    LET num == select_dtypes_number(T)
    IN Table(T.columns,
             [r \in 1..NRows(T) |->
                [c \in 1..NCols(T) |->
                   IF c \in num /\ T.rows[r][c].k = "nan"
                   THEN ColMin(T, c)
                   ELSE T.rows[r][c]]])

\* df[numeric_cols] = df[numeric_cols].fillna(df[numeric_cols].mean());
\* fillna with a NaN mean (no present cell) changes nothing.
fillna_mean(T) ==
    LET num == select_dtypes_number(T)
    IN Table(T.columns,
             [r \in 1..NRows(T) |->
                [c \in 1..NCols(T) |->
                   IF c \in num /\ T.rows[r][c].k = "nan"
                   THEN ColMean(T, c)
                   ELSE T.rows[r][c]]])

CleaningOps == {"dedup", "normalize", "fill"}

\* The body of the button that was pressed.
Clean(op, T) ==
    CASE op = "dedup" -> drop_duplicates(T)
      [] op = "normalize" -> normalize(T)
      [] op = "fill" -> fillna_mean(T)
      [] OTHER -> T

\* ------------------------------------------------------------------ strings
\* A string is a sequence of one-character strings.
LowerCh(ch) ==
    CASE ch = "A" -> "a"
      [] ch = "C" -> "c"
      [] ch = "S" -> "s"
      [] ch = "V" -> "v"
      [] ch = "X" -> "x"
      [] ch = "L" -> "l"
      [] OTHER -> ch

\* str.lower()
lower(s) == [i \in 1..Len(s) |-> LowerCh(s[i])]

\* The index of the last "." of p, 0 when there is none (str.rfind).
LastDot(p) ==
    IF \E i \in 1..Len(p) : p[i] = "."
    THEN CHOOSE i \in 1..Len(p) : p[i] = "." /\ \A j \in (i + 1)..Len(p) : p[j] # "."
    ELSE 0

\* os.path.splitext(p) for a name without directory separators: split at the
\* last dot, unless only dots precede it (a leading-dot name has no extension).
splitext_root(p) ==
    IF LastDot(p) > 0 /\ \E i \in 1..(LastDot(p) - 1) : p[i] # "."
    THEN SubSeq(p, 1, LastDot(p) - 1) ELSE p
splitext_ext(p) ==
    IF LastDot(p) > 0 /\ \E i \in 1..(LastDot(p) - 1) : p[i] # "."
    THEN SubSeq(p, LastDot(p), Len(p)) ELSE <<>>

\* str.replace(old, new): every non-overlapping occurrence, left to right.
\* (With an empty old Python inserts new around every character.)
RECURSIVE str_replace(_, _, _)
str_replace(s, old, new) ==
    IF old = <<>>
    THEN IF s = <<>> THEN new ELSE new \o <<Head(s)>> \o str_replace(Tail(s), old, new)
    ELSE IF Len(s) < Len(old) THEN s
    ELSE IF SubSeq(s, 1, Len(old)) = old
         THEN new \o str_replace(SubSeq(s, Len(old) + 1, Len(s)), old, new)
         ELSE <<Head(s)>> \o str_replace(Tail(s), old, new)

DotCsv == <<".", "c", "s", "v">>
DotXlsx == <<".", "x", "l", "s", "x">>

\* file.name.replace(file_extension, ".csv" / ".xlsx")
output_name(name, file_extension, conversion_type) ==
    str_replace(name, file_extension, IF conversion_type = "CSV" THEN DotCsv ELSE DotXlsx)

output_mime(conversion_type) ==
    IF conversion_type = "CSV" THEN "text/csv"
    ELSE "application/vnd.openxmlformats-officedocument.spreadsheetml.sheet"

\* ------------------------------------------------------------------ bytes
\* The bytes of a written file, by what they hold: the format, the header row
\* and the data rows without the index; a missing cell is written empty.
NoBytes == [fmt |-> "", header |-> <<>>, body |-> <<>>]
Field(cell) == IF cell.k = "nan" THEN Text("") ELSE cell
Written(T) == [r \in 1..NRows(T) |-> [c \in 1..NCols(T) |-> Field(T.rows[r][c])]]

\* df.to_csv(buffer, index=False)
to_csv(T) == [fmt |-> "csv", header |-> T.columns, body |-> Written(T)]
\* df.to_excel(buffer, index=False, engine='openpyxl')
to_excel(T) == [fmt |-> "xlsx", header |-> T.columns, body |-> Written(T)]

convert(T, conversion_type) == IF conversion_type = "CSV" THEN to_csv(T) ELSE to_excel(T)

\* ------------------------------------------------------------------ widgets
\* The element id Streamlit registers for a widget.  Two widgets of one
\* execution with the same id raise DuplicateWidgetID.  A keyed widget's id is
\* its key; an unkeyed button's id is its label.
Button(label, name) == <<"button", <<label>> \o name, NoBytes>>
Keyed(key) == <<"key", key, NoBytes>>
DownloadButton(file_name, mime, buffer, with_data) ==
    <<"download_button", <<"Download ", mime>> \o file_name,
      IF with_data THEN buffer ELSE NoBytes>>
NoClick == <<"none", <<>>, NoBytes>>

ButtonLabel(op) ==
    CASE op = "dedup" -> "Remove Duplicates - "
      [] op = "normalize" -> "Normalize Numeric Columns - "
      [] op = "fill" -> "Fill Missing Values - "

ChartKey(name) == name
XKey(name) == <<"x", "_">> \o name
YKey(name) == <<"y", "_">> \o name
ConvKey(name) == <<"c", "o", "n", "v", "_">> \o name

ChartTypes == <<"Bar Chart", "Histogram", "Pie Chart", "Scatter Plot">>
ConversionTypes == <<"CSV", "Excel">>

Range(s) == {s[i] : i \in 1..Len(s)}

\* st.selectbox / st.radio: the user's choice for the key when it is one of the
\* options, else the first option (index 0).
widget_value(ss, key, options) ==
    IF key \in DOMAIN ss /\ ss[key] \in Range(options) THEN ss[key] ELSE options[1]

\* The numeric columns' names in column order (the axis selectboxes' options).
RECURSIVE NumericNames(_, _)
NumericNames(T, c) ==
    IF c > NCols(T) THEN <<>>
    ELSE IF c \in select_dtypes_number(T)
         THEN <<T.columns[c]>> \o NumericNames(T, c + 1)
         ELSE NumericNames(T, c + 1)
numeric_columns(T) == NumericNames(T, 1)

NoFig == [kind |-> "", x |-> "", y |-> ""]
\* px.bar / px.histogram / px.pie / px.scatter
figure(chart_type, x_axis, y_axis) ==
    IF chart_type = "Histogram" THEN [kind |-> chart_type, x |-> x_axis, y |-> ""]
    ELSE [kind |-> chart_type, x |-> x_axis, y |-> y_axis]

\* ------------------------------------------------------------ one execution
EmptyTable == Table(<<>>, <<>>)

\* What one iteration of the file loop left on the page.
\*   status  "ok": converted and offered for download; "unsupported": st.error
\*           and continue; "exception": an uncaught exception ended the
\*           execution in this iteration; "not_reached": the execution ended
\*           in an earlier iteration
\*   rendered  the widgets of this file that were drawn
\*   df, file_name, mime, buffer  the table that was converted and the download
\*           offered for it (status "ok" only)
PageEntry(status, error, rendered, table, fig, file_name, mime, buffer) ==
    [status |-> status, error |-> error, rendered |-> rendered, df |-> table,
     fig |-> fig, file_name |-> file_name, mime |-> mime, buffer |-> buffer]
NotReached == PageEntry("not_reached", "", {}, EmptyTable, NoFig, <<>>, "", NoBytes)

\* processed_files[file_name] = buffer on a dict kept as a sequence of items in
\* insertion order: an existing key keeps its place and gets the new value.
dict_set(d, key, value) ==
    IF \E i \in 1..Len(d) : d[i].name = key
    THEN [i \in 1..Len(d) |-> IF d[i].name = key THEN [name |-> key, data |-> value] ELSE d[i]]
    ELSE Append(d, [name |-> key, data |-> value])

\* The first position of ws whose id was registered before (in ids, or earlier
\* in ws); 0 when every id is new.
FirstDuplicate(ws, ids) ==
    LET dup(k) == ws[k] \in ids \/ \E j \in 1..(k - 1) : ws[j] = ws[k]
    IN IF \E k \in 1..Len(ws) : dup(k)
       THEN CHOOSE k \in 1..Len(ws) : dup(k) /\ \A j \in 1..(k - 1) : ~dup(j)
       ELSE 0

WidgetKinds(two_numeric) ==
    IF two_numeric
    THEN <<"dedup", "normalize", "fill", "chart", "x", "y", "conv", "download">>
    ELSE <<"dedup", "normalize", "fill", "chart", "conv", "download">>

\* if st.button(label): which of the file's three buttons is True in this
\* execution (the one the user's click caused it with).
button_pressed(name, clk) ==
    [op \in CleaningOps |-> clk = Button(ButtonLabel(op), name)]

\* The state st of an execution: [page, processed_files, ids, exception].
Raise(st, error, entry) ==
    [page |-> Append(st.page, entry), processed_files |-> st.processed_files,
     ids |-> st.ids, exception |-> error]

\* The end of an iteration whose widgets ws (of the kinds `kinds`, in the order
\* the script creates them) were registered up to the first duplicate, the
\* k-th; k = 0 when there is none.  The download button is the last widget
\* and line 157 precedes it.
Outcome(st, table, fig, file_name, mime_type, buffer, ws, kinds, k) ==
    IF k = 0
    THEN [page |-> Append(st.page,
                      PageEntry("ok", "", Range(kinds), table, fig, file_name,
                                mime_type, buffer)),
          processed_files |-> dict_set(st.processed_files, file_name, buffer),
          ids |-> st.ids \cup Range(ws),
          exception |-> "none"]
    ELSE [page |-> Append(st.page,
                      PageEntry("exception", "DuplicateWidgetID",
                                {kinds[j] : j \in 1..(k - 1)}, EmptyTable,
                                IF k > Len(ws) - 2 THEN fig ELSE NoFig, <<>>, "", NoBytes)),
          processed_files |-> IF k = Len(ws)
                              THEN dict_set(st.processed_files, file_name, buffer)
                              ELSE st.processed_files,
          ids |-> st.ids,
          exception |-> "DuplicateWidgetID"]

\* The widgets of one iteration in the order the script creates them.
Widgets(name, two, file_name, mime_type, buffer, with_data) ==
    <<Button(ButtonLabel("dedup"), name), Button(ButtonLabel("normalize"), name),
      Button(ButtonLabel("fill"), name), Keyed(ChartKey(name))>>
    \o (IF two THEN <<Keyed(XKey(name)), Keyed(YKey(name))>> ELSE <<>>)
    \o <<Keyed(ConvKey(name)), DownloadButton(file_name, mime_type, buffer, with_data)>>

Registered(st, name, table, fig, two, file_name, mime_type, buffer, ws) ==
    Outcome(st, table, fig, file_name, mime_type, buffer, ws, WidgetKinds(two),
            FirstDuplicate(ws, st.ids))

\* Convert & Download (lines 141-158) for the chosen conversion_type.
Converted(st, name, table, fig, two, conversion_type, file_name, buffer, with_data) ==
    Registered(st, name, table, fig, two, file_name, output_mime(conversion_type), buffer,
               Widgets(name, two, file_name, output_mime(conversion_type), buffer, with_data))

Conversion(st, name, table, fig, two, conversion_type, with_data) ==
    Converted(st, name, table, fig, two, conversion_type,
              output_name(name, lower(splitext_ext(name)), conversion_type),
              convert(table, conversion_type), with_data)

\* Data Visualization (lines 118-138): reads the table, never writes it.
Chart(ss, name, numcols) ==
    IF Len(numcols) >= 2
    THEN figure(widget_value(ss, ChartKey(name), ChartTypes),
                widget_value(ss, XKey(name), numcols),
                widget_value(ss, YKey(name), numcols))
    ELSE NoFig

Visualized(st, ss, name, table, numcols, with_data) ==
    Conversion(st, name, table, Chart(ss, name, numcols), Len(numcols) >= 2,
               widget_value(ss, ConvKey(name), ConversionTypes), with_data)

\* Data Cleaning (lines 98-116): each button's body runs when it is pressed.
after_dedup(T, pressed) == IF pressed["dedup"] THEN drop_duplicates(T) ELSE T
after_normalize(T, pressed) == IF pressed["normalize"] THEN normalize(T) ELSE T
after_fill(T, pressed) == IF pressed["fill"] THEN fillna_mean(T) ELSE T
Cleaned(T, pressed) == after_fill(after_normalize(after_dedup(T, pressed), pressed), pressed)

Ingested(st, ss, name, table, with_data) ==
    Visualized(st, ss, name, table, numeric_columns(table), with_data)

\* One iteration of `for file in uploaded_files`.
ProcessFile(file, st, ss, clk, with_data) ==
    IF lower(splitext_ext(file.name)) \notin {DotCsv, DotXlsx}
    THEN \* st.error(...); continue
         [st EXCEPT !.page = Append(st.page,
             PageEntry("unsupported", "Unsupported file type", {}, EmptyTable, NoFig,
                       <<>>, "", NoBytes))]
    ELSE IF ~file.content.ok
    THEN \* pd.read_csv / pd.read_excel raises on malformed content
         Raise(st, "ParserError",
               PageEntry("exception", "ParserError", {}, EmptyTable, NoFig, <<>>, "", NoBytes))
    ELSE Ingested(st, ss, file.name,
                  Cleaned(file.content.table, button_pressed(file.name, clk)), with_data)

\* The file loop: files in upload order, until an exception ends the execution.
RECURSIVE ProcessFiles(_, _, _, _, _, _)
ProcessFiles(files, i, st, ss, clk, with_data) ==
    IF i > Len(files) THEN st
    ELSE IF st.exception # "none"
         THEN ProcessFiles(files, i + 1, [st EXCEPT !.page = Append(st.page, NotReached)],
                           ss, clk, with_data)
         ELSE ProcessFiles(files, i + 1, ProcessFile(files[i], st, ss, clk, with_data),
                           ss, clk, with_data)

NoZip == [offered |-> FALSE, entries |-> <<>>]
\* zf.writestr(file_name, file_buffer.getvalue()) for every item of the dict
make_zip(d) == [offered |-> TRUE, entries |-> d]

\* After the loop (lines 160-170): the bulk download and the success message.
AfterLoop(st) ==
    [page |-> st.page,
     processed_files |-> st.processed_files,
     zip_buffer |-> IF st.exception = "none" /\ st.processed_files # <<>>
                    THEN make_zip(st.processed_files) ELSE NoZip,
     exception |-> st.exception,
     success |-> st.exception = "none"]

\* One execution of the script.
Run(files, ss, clk, with_data) ==
    AfterLoop(ProcessFiles(files, 1,
                  [page |-> <<>>, processed_files |-> <<>>, ids |-> {}, exception |-> "none"],
                  ss, clk, with_data))

\* ------------------------------------------------------------------ inputs
NameCsv == <<"a", ".", "c", "s", "v">>
NameXlsx == <<"a", ".", "x", "l", "s", "x">>
NameUpper == <<"A", ".", "C", "S", "V">>
NameTwice == <<"a", ".", "c", "s", "v", ".", "c", "s", "v">>
NameXCsv == <<"x", "_", "a", ".", "c", "s", "v">>
NameTxt == <<"n", ".", "t", "x", "t">>
FileNames == {NameCsv, NameXlsx, NameUpper, NameTwice, NameXCsv, NameTxt}

\* name,v,w with a duplicated row, a missing cell and a zero-range column
TableA ==
    Table(<<"name", "v", "w">>,
          << <<Text("x"), Num(1, 1), Num(2, 1)>>,
             <<Text("x"), Num(1, 1), Num(2, 1)>>,
             <<Text("y"), Num(3, 1), Num(2, 1)>>,
             <<Text("z"), NaN, Num(2, 1)>> >>)
\* name,v: a single numeric column
TableB ==
    Table(<<"name", "v">>,
          << <<Text("x"), Num(0, 1)>>, <<Text("y"), Num(2, 1)>> >>)

Malformed == [ok |-> FALSE, table |-> EmptyTable]
Parsed(T) == [ok |-> TRUE, table |-> T]
FileContents == {Parsed(TableA), Parsed(TableB), Malformed}

\* st.file_uploader(type=["csv", "xlsx"]): the extension, whatever its case,
\* must be one of the listed types.
file_uploader_accepts(name) == lower(splitext_ext(name)) \in {DotCsv, DotXlsx}

\* Tables of up to MaxRows rows over name (text or missing) and v (a number
\* 0..MaxVal or missing).
RowKinds ==
    {<<nm, v>> : nm \in {Text("x"), Text("y"), NaN},
                 v \in {Num(i, 1) : i \in 0..MaxVal} \cup {NaN}}
Tables ==
    {Table(<<"name", "v">>, rows) : rows \in UNION {[1..n -> RowKinds] : n \in 0..MaxRows}}

\* ------------------------------------------------------------------ the script
NoAction == [kind |-> "none", file |-> 0]

\* The outcome of executing the script becomes the page the user sees.
Show(r) ==
    /\ page' = r.page
    /\ processed_files' = r.processed_files
    /\ zip_buffer' = r.zip_buffer
    /\ exception' = r.exception
    /\ success' = r.success
Rerun(files, ss, clk) == Show(Run(files, ss, clk, download_id_has_data))

AppInit ==
    /\ uploaded_files = <<>>
    /\ session_state = <<>>
    /\ clicked = NoClick
    /\ page = <<>>
    /\ processed_files = <<>>
    /\ zip_buffer = NoZip
    /\ exception = "none"
    /\ success = TRUE
    /\ expected = <<>>
    /\ last_action = NoAction
    /\ interactions = 0

CleanIdle == df_in = EmptyTable /\ df = EmptyTable /\ last_op = "none" /\ prev_op = "none"

Init == AppInit /\ download_id_has_data \in BOOLEAN /\ CleanIdle

\* The user adds a file to the uploader.
Upload ==
    \E name \in FileNames, content \in FileContents :
        /\ Len(uploaded_files) < MaxFiles
        /\ file_uploader_accepts(name)
        /\ uploaded_files' = Append(uploaded_files, [name |-> name, content |-> content])
        /\ clicked' = NoClick
        /\ expected' = Append(expected, content.table)
        /\ last_action' = [kind |-> "upload", file |-> Len(uploaded_files) + 1]
        /\ Rerun(uploaded_files', session_state, clicked')
        /\ UNCHANGED <<session_state, download_id_has_data, interactions, cleanVars>>

Drawn(i, kind) == i \in 1..Len(page) /\ kind \in page[i].rendered

\* The user presses one of a file's three cleaning buttons.
ClickButton ==
    \E i \in 1..Len(uploaded_files), op \in CleaningOps :
        /\ interactions < MaxInteractions
        /\ Drawn(i, op)
        /\ clicked' = Button(ButtonLabel(op), uploaded_files[i].name)
        /\ expected' = [expected EXCEPT ![i] = Clean(op, @)]
        /\ last_action' = [kind |-> op, file |-> i]
        /\ interactions' = interactions + 1
        /\ Rerun(uploaded_files, session_state, clicked')
        /\ UNCHANGED <<uploaded_files, session_state, download_id_has_data, cleanVars>>

\* The user changes a keyed widget of file i to another of its options.
Select(i, kind, key, options) ==
    \E v \in Range(options) :
        /\ interactions < MaxInteractions
        /\ Drawn(i, kind)
        /\ v # widget_value(session_state, key, options)
        /\ session_state' = [q \in DOMAIN session_state \cup {key} |->
                                IF q = key THEN v ELSE session_state[q]]
        /\ clicked' = NoClick
        /\ last_action' = [kind |-> kind, file |-> i]
        /\ interactions' = interactions + 1
        /\ Rerun(uploaded_files, session_state', clicked')
        /\ UNCHANGED <<uploaded_files, expected, download_id_has_data, cleanVars>>

SelectChart ==
    \E i \in 1..Len(uploaded_files) :
        Select(i, "chart", ChartKey(uploaded_files[i].name), ChartTypes)
SelectX ==
    \E i \in 1..Len(uploaded_files) :
        Select(i, "x", XKey(uploaded_files[i].name), numeric_columns(page[i].df))
SelectY ==
    \E i \in 1..Len(uploaded_files) :
        Select(i, "y", YKey(uploaded_files[i].name), numeric_columns(page[i].df))
SelectConversion ==
    \E i \in 1..Len(uploaded_files) :
        Select(i, "conv", ConvKey(uploaded_files[i].name), ConversionTypes)

Next == Upload \/ ClickButton \/ SelectChart \/ SelectX \/ SelectY \/ SelectConversion

Spec == Init /\ [][Next]_vars

\* ------------------------------------------------- the cleaning operations alone
InitClean ==
    /\ AppInit
    /\ download_id_has_data = FALSE
    /\ df \in Tables
    /\ df_in = df
    /\ last_op = "none"
    /\ prev_op = "none"

Deduplicate ==
    /\ df_in' = df
    /\ df' = drop_duplicates(df)
    /\ last_op' = "dedup"
    /\ prev_op' = last_op
    /\ UNCHANGED appVars

NormalizeNumeric ==
    /\ df_in' = df
    /\ df' = normalize(df)
    /\ last_op' = "normalize"
    /\ prev_op' = last_op
    /\ UNCHANGED appVars

FillMissing ==
    /\ df_in' = df
    /\ df' = fillna_mean(df)
    /\ last_op' = "fill"
    /\ prev_op' = last_op
    /\ UNCHANGED appVars

NextClean == Deduplicate \/ NormalizeNumeric \/ FillMissing

SpecClean == InitClean /\ [][NextClean]_vars

\* ================================================================== claims
Files == 1..Len(uploaded_files)
\* The files the current execution converted and offers for download.
Processed == {i \in Files : page[i].status = "ok"}
ConversionOf(i) == widget_value(session_state, ConvKey(uploaded_files[i].name), ConversionTypes)
CanonicalExtension(conversion_type) == IF conversion_type = "CSV" THEN DotCsv ELSE DotXlsx
\* The interactions with a file's widgets.
WidgetActions == {"dedup", "normalize", "fill", "chart", "x", "y", "conv"}

\* C1: after an execution over uploaded files that all parse and have different
\* names, the bulk archive is offered when a file was processed, holds exactly
\* one entry per processed file, and for each processed file an entry with
\* that file's output name and the bytes of its individual download.
C1_ArchiveOneEntryPerFile ==
    (/\ \A i \in Files : uploaded_files[i].content.ok
     /\ \A i, j \in Files : i # j => uploaded_files[i].name # uploaded_files[j].name) =>
        /\ (Processed # {} => zip_buffer.offered)
        /\ Len(zip_buffer.entries) = Cardinality(Processed)
        /\ \A i \in Processed :
              \E e \in 1..Len(zip_buffer.entries) :
                  /\ zip_buffer.entries[e].name = page[i].file_name
                  /\ zip_buffer.entries[e].data = page[i].buffer

\* C2: an error while processing one file is reported and skips only that
\* file: the failing file gets an error message and no output, every file is
\* still reached by the loop, and the bulk archive is built over the files
\* that succeeded.
C2_ErrorSkipsOnlyThatFile ==
    /\ \A i \in Files :
          /\ page[i].status # "not_reached"
          /\ page[i].status \in {"unsupported", "exception"} =>
                page[i].error # "" /\ page[i].buffer = NoBytes
    /\ Processed # {} =>
          /\ zip_buffer.offered
          /\ \A i \in Processed :
                \E e \in 1..Len(zip_buffer.entries) :
                    zip_buffer.entries[e].name = page[i].file_name

\* C3: the table converted and offered for download is the ingested table with
\* every cleaning operation triggered so far for that file applied in trigger
\* order, whatever other interactions happened in between.
C3_CleaningAccumulates ==
    last_action.kind \in WidgetActions =>
        \A i \in Processed :
            /\ page[i].df = expected[i]
            /\ page[i].buffer = convert(expected[i], ConversionOf(i))

\* C4: the output file name is the original name with only its final extension
\* replaced by the target format's canonical extension: <stem>.csv or
\* <stem>.xlsx.
C4_OutputNameIsStemPlusExtension ==
    \A i \in Processed :
        page[i].file_name =
            splitext_root(uploaded_files[i].name) \o CanonicalExtension(ConversionOf(i))

\* What an execution produced for a file: its table, its converted bytes and
\* its output name.
Output(entry) == <<entry.df, entry.buffer, entry.file_name>>
\* C5: a user action aimed at one file (a cleaning button, a chart or axis
\* selection, a target format choice) leaves every other file's table,
\* converted bytes and output name as they were before the action (stated for
\* executions that run to the end before and after the action).
C5_NoCrossFileEffect ==
    [][(last_action'.kind \in WidgetActions /\ success /\ success') =>
          \A j \in Files \ {last_action'.file} : Output(page'[j]) = Output(page[j])]_vars

\* C6: choosing another chart type or axis column for a file changes neither
\* that file's table nor its converted bytes, whatever cleaning was applied
\* to the file before the selection.
C6_VisualizationReadOnly ==
    [][last_action'.kind \in {"chart", "x", "y"} =>
          /\ page'[last_action'.file].df = page[last_action'.file].df
          /\ page'[last_action'.file].buffer = page[last_action'.file].buffer]_vars

\* ---- claims about the cleaning operations (SpecClean)
NumericIn == select_dtypes_number(df_in)
SameShape == df.columns = df_in.columns /\ NRows(df) = NRows(df_in)
Unchanged(c) == \A r \in 1..NRows(df_in) : df.rows[r][c] = df_in.rows[r][c]
ZeroRange(c) == Present(df_in, c) # {} /\ ColMin(df_in, c) = ColMax(df_in, c)
DistinctMinMax(c) == Present(df_in, c) # {} /\ ColMin(df_in, c) # ColMax(df_in, c)

\* C7: normalizing a zero-range numeric column follows an explicit policy: the
\* column is left unchanged or its present cells are mapped to 0; a present
\* cell never silently becomes not-a-number.
C7_ZeroRangeFollowsPolicy ==
    last_op = "normalize" =>
        \A c \in NumericIn :
            ZeroRange(c) =>
                /\ \A r \in Present(df_in, c) : df.rows[r][c].k # "nan"
                /\ \/ Unchanged(c)
                   \/ \A r \in Present(df_in, c) : df.rows[r][c] = Num(0, 1)

\* C8: after normalization, in every numeric column with distinct minimum and
\* maximum every value lies in [0,1], each cell that held the minimum holds 0
\* and each cell that held the maximum holds 1; non-numeric columns are
\* unchanged.
C8_NormalizedRange ==
    last_op = "normalize" =>
        /\ SameShape
        /\ \A c \in 1..NCols(df_in) :
              /\ c \notin NumericIn => Unchanged(c)
              /\ (c \in NumericIn /\ DistinctMinMax(c)) =>
                    \A r \in Present(df_in, c) :
                        /\ df.rows[r][c].k = "num"
                        /\ Leq(Num(0, 1), df.rows[r][c]) /\ Leq(df.rows[r][c], Num(1, 1))
                        /\ df_in.rows[r][c] = ColMin(df_in, c) => df.rows[r][c] = Num(0, 1)
                        /\ df_in.rows[r][c] = ColMax(df_in, c) => df.rows[r][c] = Num(1, 1)

\* C8 happens: a column with distinct minimum and maximum was normalized to a
\* value strictly between 0 and 1, beside a non-numeric column.
C8_Witness ==
    /\ last_op = "normalize"
    /\ \E c \in NumericIn : DistinctMinMax(c) /\ \E r \in Present(df_in, c) : df.rows[r][c].d # 1
    /\ \E c \in 1..NCols(df_in) : c \notin NumericIn

\* m is the mean of column c's present values: their sum is m times their number.
IsMeanOf(m, c) ==
    /\ m.k = "num"
    /\ SumRows(df_in, c, NRows(df_in)).n * m.d =
          m.n * Cardinality(Present(df_in, c)) * SumRows(df_in, c, NRows(df_in)).d

FillKeepsTheRest ==
    /\ SameShape
    /\ \A c \in 1..NCols(df_in) :
          /\ c \notin NumericIn => Unchanged(c)
          /\ \A r \in Present(df_in, c) : df.rows[r][c] = df_in.rows[r][c]

\* C9 as claimed: fill-missing replaces every missing cell of every numeric
\* column with the mean of the column's present values, leaves the rest
\* unchanged, and leaves no missing cell in any numeric column, also in one
\* whose cells are all missing.
C9_FillLeavesNoMissing ==
    last_op = "fill" =>
        /\ FillKeepsTheRest
        /\ \A c \in NumericIn :
              \A r \in 1..NRows(df_in) :
                  /\ df.rows[r][c].k # "nan"
                  /\ r \notin Present(df_in, c) => IsMeanOf(df.rows[r][c], c)

\* C9 amended: fill-missing replaces every missing cell of every numeric column
\* that has a present value with the mean of the column's present values and
\* leaves no missing cell in such a column; present cells and non-numeric
\* columns are unchanged, and a numeric column whose cells are all missing
\* stays all missing.
C9_FillWherePresent ==
    last_op = "fill" =>
        /\ FillKeepsTheRest
        /\ \A c \in NumericIn :
              IF Present(df_in, c) = {}
              THEN Unchanged(c)
              ELSE \A r \in 1..NRows(df_in) :
                      /\ df.rows[r][c].k # "nan"
                      /\ r \notin Present(df_in, c) => IsMeanOf(df.rows[r][c], c)

\* C9 happens: one numeric column was all missing, another had a missing cell
\* filled with a mean that is not the column's minimum.
C9_Witness ==
    /\ last_op = "fill"
    /\ \E c \in NumericIn : Present(df_in, c) = {}
    /\ \E c \in NumericIn :
          /\ Present(df_in, c) # {}
          /\ \E r \in 1..NRows(df_in) :
                /\ r \notin Present(df_in, c)
                /\ df.rows[r][c] # ColMin(df_in, c)

\* The rows of `before` that no earlier row equals, in their order.
FirstOccurrences(before, after) ==
    LET first == {i \in 1..Len(before) : \A j \in 1..(i - 1) : before[j] # before[i]}
        nth(n) == CHOOSE i \in first : Cardinality({j \in first : j <= i}) = n
    IN /\ Len(after) = Cardinality(first)
       /\ \A n \in 1..Len(after) : after[n] = before[nth(n)]

\* C10: each cleaning operation is idempotent: applying it a second time in a
\* row leaves the table as the first application left it; deduplicate keeps
\* exactly the first occurrence of each distinct row, in the original order.
C10_Idempotent ==
    /\ (last_op # "none" /\ prev_op = last_op) => df = df_in
    /\ last_op = "dedup" =>
          df.columns = df_in.columns /\ FirstOccurrences(df_in.rows, df.rows)

\* C10 happens: normalize was applied twice in a row to a table with a
\* fractional (normalized or filled) value.
C10_Witness ==
    /\ last_op = "normalize" /\ prev_op = "normalize"
    /\ \E r \in 1..NRows(df) : \E c \in 1..NCols(df) : df.rows[r][c].d # 1

====
